---- MODULE Spec2Model ----
(***************************************************************************)
(* State-machine model of the interactive components of yew-bootstrap:     *)
(*   Tooltip       packages/yew-bootstrap/src/component/tooltip.rs         *)
(*   DropdownMenu  packages/yew-bootstrap/src/component/dropdown.rs        *)
(*   Button        packages/yew-bootstrap/src/component/button.rs          *)
(*                                                                         *)
(* A component is rendered by the host framework: a render runs the        *)
(* component function on the current props and hook state and then runs    *)
(* the effects whose dependencies changed.  A state change made by an      *)
(* event listener schedules a re-render, which the framework runs before   *)
(* the next DOM event is delivered.  Each component has its own            *)
(* specification (TooltipSpec, DropdownSpec, ButtonSpec); the variables    *)
(* of the other components stay at their initial values.                   *)
(*                                                                         *)
(* DOM elements are HtmlElements.  NoElem stands for the None that         *)
(* NodeRef::cast::<HtmlElement>() and dyn_into::<HtmlElement>() give for   *)
(* an unbound reference or a node that is not an HtmlElement.              *)
(***************************************************************************)
EXTENDS Integers, Sequences, FiniteSets, TLC

VARIABLES
    \* ---- Tooltip ----
    tMounted,     \* the Tooltip is mounted
    tProps,       \* TooltipProps of the last render
    focused,      \* use_state_eq(|| false)
    hovered,      \* use_state_eq(|| false)
    tDirty,       \* a re-render of the Tooltip is scheduled
    tView,        \* the tooltip element emitted by the last render
    tDeps,        \* dependencies the effects last ran with
    listeners,    \* element -> event types this Tooltip listens to on it
    aria,         \* element -> value of aria-describedby (NoId: absent)
    envFocus,     \* history: last focus event delivered ("never","in","out")
    envHover,     \* history: last hover event delivered ("never","in","out")
    quiet,        \* history: rendered disabled, and no enter event since
    popperInst,   \* popper.instance, as use_popper returns it
    updReq,       \* the last step spawned a task calling popper.update()
    \* ---- DropdownMenu ----
    dMounted,     \* the DropdownMenu is mounted
    dProps,       \* DropdownMenuProps of the last render
    shown,        \* use_state_eq(|| false)
    dDirty,       \* a re-render of the DropdownMenu is scheduled
    dView,        \* the <ul> emitted by the last render
    dDeps,        \* dependencies the effects last ran with
    pending,      \* spawned tasks still awaiting popper.update()
    nItems,       \* number of focusable .dropdown-item children
    dFocus,       \* the node that has the document's focus
    lastEvt,      \* what the last step did: the handler of a DOM event, or
                  \* (type "focus") the effect that called focus()
    dPanicked,    \* a handler panicked
    \* ---- Button ----
    bMounted,     \* the Button is mounted
    bProps,       \* ButtonProps of the last view()
    bView         \* the element emitted by the last view()

tVars == <<tMounted, tProps, focused, hovered, tDirty, tView, tDeps,
           listeners, aria, envFocus, envHover, quiet, popperInst, updReq>>

dVars == <<dMounted, dProps, shown, dDirty, dView, dDeps, pending, nItems,
           dFocus, lastEvt, dPanicked>>

bVars == <<bMounted, bProps, bView>>

vars == <<tVars, dVars, bVars>>

(***************************************************************************)
(* Bounds                                                                  *)
(***************************************************************************)
\* A parent re-render changes at most this many props at once.
MaxPropChanges == 2

\* The menu has at most this many focusable items.
NumItems == 3

\* At most this many spawned popper.update() tasks are in flight.
MaxPending == 2

(***************************************************************************)
(* Tooltip: values                                                         *)
(***************************************************************************)
NoElem == "none"
Elems == {"e1", "e2"}

\* NodeRefs a parent can pass as `target`; r0 does not cast to an HtmlElement.
NodeRefs == {"r0", "r1", "r2"}

\* target_ref.cast::<HtmlElement>()
Cast(ref) == CASE ref = "r1" -> "e1"
               [] ref = "r2" -> "e2"
               [] OTHER -> NoElem

NoId == "none"
Ids == {"tipA", "tipB"}

\* Values of popper.instance.
Instances == {"i0", "i1"}

EventTypes == {"focusin", "focusout", "mouseenter", "mouseleave"}

TooltipFields == {"target", "id", "show", "trigger_on_focus",
                  "trigger_on_hover", "disabled"}

\* TooltipProps.  `children`, `placement` and `fade` take part in no decision
\* of the component (fade only adds the class "fade") and are left out.
TooltipProps == [target : NodeRefs,
                 id : Ids \cup {NoId},
                 show : BOOLEAN,
                 trigger_on_focus : BOOLEAN,
                 trigger_on_hover : BOOLEAN,
                 disabled : BOOLEAN]

\* The #[prop_or...] defaults, with the first target.
TooltipDefault == [target |-> "r1", id |-> NoId, show |-> FALSE,
                   trigger_on_focus |-> TRUE, trigger_on_hover |-> TRUE,
                   disabled |-> FALSE]

NoView == [present |-> FALSE, role |-> "none", class |-> {},
           dataShow |-> FALSE, id |-> NoId]

NoDeps == [ran |-> FALSE, target |-> "r0", id |-> NoId, show |-> FALSE,
           instance |-> "i0"]

(***************************************************************************)
(* Tooltip: the component function                                         *)
(***************************************************************************)
\* Mutant of OnShow: every enter event sets both flags.
OnShowBoth(evt_type, f, h) ==
    IF evt_type \in {"mouseenter", "focusin"}
    THEN [focused |-> TRUE, hovered |-> TRUE]
    ELSE [focused |-> f, hovered |-> h]

\* onshow: the state after the callback ran on an event of type evt_type.
OnShow(evt_type, f, h) ==
    CASE evt_type = "mouseenter" -> [focused |-> f, hovered |-> TRUE]
      [] evt_type = "focusin" -> [focused |-> TRUE, hovered |-> h]
      [] OTHER -> [focused |-> f, hovered |-> h]

\* Mutant of OnHide: every leave event clears both flags.
OnHideBoth(evt_type, f, h) ==
    IF evt_type \in {"mouseleave", "focusout"}
    THEN [focused |-> FALSE, hovered |-> FALSE]
    ELSE [focused |-> f, hovered |-> h]

\* onhide
OnHide(evt_type, f, h) ==
    CASE evt_type = "mouseleave" -> [focused |-> f, hovered |-> FALSE]
      [] evt_type = "focusout" -> [focused |-> FALSE, hovered |-> h]
      [] OTHER -> [focused |-> f, hovered |-> h]

\* Mutant of DisabledReset: the state is left alone when disabled.
DisabledNoReset(p, f, h) == [focused |-> f, hovered |-> h]

\* if props.disabled { focused.set(false); hovered.set(false); }
DisabledReset(p, f, h) ==
    IF p.disabled THEN [focused |-> FALSE, hovered |-> FALSE]
    ELSE [focused |-> f, hovered |-> h]

\* Mutant of TooltipShow: `disabled` does not override the `show` prop.
TooltipShowPropWins(p, f, h) ==
    \/ p.show
    \/ (~p.disabled /\ ((f /\ p.trigger_on_focus) \/ (h /\ p.trigger_on_hover)))

\* Mutant of TooltipShow: the `show` prop only counts while a trigger is off.
TooltipShowToggle(p, f, h) ==
    /\ ~p.disabled
    /\ p.show # ((f /\ p.trigger_on_focus) \/ (h /\ p.trigger_on_hover))

\* let show = ...
TooltipShow(p, f, h) ==
    /\ ~p.disabled
    /\ \/ p.show
       \/ (f /\ p.trigger_on_focus)
       \/ (h /\ p.trigger_on_hover)

\* Mutant of TooltipView: as in plain Bootstrap, a hidden tooltip is not
\* part of the document.
TooltipViewOnlyShown(p, show) ==
    [present |-> show,
     role |-> "tooltip",
     class |-> {"tooltip", "bs-tooltip-auto"}
               \cup (IF show THEN {"show"} ELSE {}),
     dataShow |-> show,
     id |-> p.id]

\* The element handed to create_portal(.., body).
TooltipView(p, show) ==
    [present |-> TRUE,
     role |-> "tooltip",
     class |-> {"tooltip", "bs-tooltip-auto"}
               \cup (IF show THEN {"show"} ELSE {}),
     dataShow |-> show,
     id |-> p.id]

\* Mutant of ListenerEffect: the effect returns no destructor.
ListenerEffectNoCleanup(lis, deps, p) ==
    IF deps.ran /\ deps.target = p.target THEN lis
    ELSE [e \in Elems |-> IF e = Cast(p.target) THEN EventTypes ELSE lis[e]]

\* use_effect_with(props.target.clone(), ..): the destructor of the previous
\* run removes the four listeners from the element it captured, then the
\* four are added to the element the new target casts to.
ListenerEffect(lis, deps, p) ==
    IF deps.ran /\ deps.target = p.target THEN lis
    ELSE LET removed == [e \in Elems |->
                            IF deps.ran /\ e = Cast(deps.target)
                            THEN {} ELSE lis[e]]
         IN [e \in Elems |->
                IF e = Cast(p.target) THEN EventTypes ELSE removed[e]]

\* Mutant of AriaEffect: `show` is missing from the dependencies.
AriaEffectNoShowDep(ar, deps, p, show) ==
    IF /\ deps.ran
       /\ deps.target = p.target
       /\ deps.id = p.id
    THEN ar
    ELSE IF Cast(p.target) = NoElem THEN ar
    ELSE [ar EXCEPT ![Cast(p.target)] =
              IF p.id # NoId /\ show THEN p.id ELSE NoId]

\* use_effect_with((props.target.clone(), props.id.clone(), show), ..)
AriaEffect(ar, deps, p, show) ==
    IF /\ deps.ran
       /\ deps.target = p.target
       /\ deps.id = p.id
       /\ deps.show = show
    THEN ar
    ELSE IF Cast(p.target) = NoElem THEN ar
    ELSE [ar EXCEPT ![Cast(p.target)] =
              IF p.id # NoId /\ show THEN p.id ELSE NoId]

\* Mutant of UpdateEffect: the effect has no dependencies and runs after
\* every render.
UpdateEffectEveryRender(deps, show, inst) == show

\* use_effect_with((show, popper.instance.clone()), ..): TRUE iff the effect
\* runs and spawns the task that awaits popper.update().
UpdateEffect(deps, show, inst) ==
    /\ ~deps.ran \/ deps.show # show \/ deps.instance # inst
    /\ show

\* One run of the component function on props p, followed by its effects.
TooltipRender(p) ==
    LET show == TooltipShow(p, focused, hovered)
        st == DisabledReset(p, focused, hovered)
    IN /\ tProps' = p
       /\ focused' = st.focused
       /\ hovered' = st.hovered
       /\ tDirty' = (st.focused # focused \/ st.hovered # hovered)
       /\ tView' = TooltipView(p, show)
       /\ listeners' = ListenerEffect(listeners, tDeps, p)
       /\ aria' = AriaEffect(aria, tDeps, p, show)
       /\ updReq' = UpdateEffect(tDeps, show, popperInst')
       /\ tDeps' = [ran |-> TRUE, target |-> p.target, id |-> p.id,
                    show |-> show, instance |-> popperInst']
       /\ quiet' = (p.disabled \/ quiet)

\* Number of props in which p and q differ.
PropChanges(p, q) == Cardinality({k \in TooltipFields : p[k] # q[k]})

(***************************************************************************)
(* Tooltip: actions                                                        *)
(***************************************************************************)
\* The parent mounts the Tooltip: first render, every effect runs.
TooltipMount ==
    /\ ~tMounted
    /\ \E p \in TooltipProps :
          /\ tMounted' = TRUE
          /\ popperInst' = popperInst
          /\ TooltipRender(p)
          /\ UNCHANGED <<envFocus, envHover, dVars, bVars>>

\* The parent re-renders the Tooltip with changed props.
TooltipParentRender ==
    /\ tMounted
    /\ \E p \in TooltipProps :
          /\ PropChanges(p, tProps) \in 1..MaxPropChanges
          /\ popperInst' = popperInst
          /\ TooltipRender(p)
          /\ UNCHANGED <<tMounted, envFocus, envHover, dVars, bVars>>

\* The re-render scheduled by a state change.
TooltipRerender ==
    /\ tMounted
    /\ tDirty
    /\ popperInst' = popperInst
    /\ TooltipRender(tProps)
    /\ UNCHANGED <<tMounted, envFocus, envHover, dVars, bVars>>

\* use_popper hands out another instance: its hook state changed, and the
\* Tooltip is rendered again with the props it has.
TooltipPopperChange ==
    /\ tMounted
    /\ \E inst \in Instances \ {popperInst} :
          /\ popperInst' = inst
          /\ TooltipRender(tProps)
          /\ UNCHANGED <<tMounted, envFocus, envHover, dVars, bVars>>

\* show_listener / hide_listener ran on an event of type ty: the callback
\* sets the state, and a changed state schedules a re-render.
Deliver(ty) ==
    LET st == IF ty \in {"focusin", "mouseenter"}
              THEN OnShow(ty, focused, hovered)
              ELSE OnHide(ty, focused, hovered)
    IN /\ focused' = st.focused
       /\ hovered' = st.hovered
       /\ tDirty' = (st.focused # focused \/ st.hovered # hovered)
       /\ envFocus' = CASE ty = "focusin" -> "in"
                        [] ty = "focusout" -> "out"
                        [] OTHER -> envFocus
       /\ envHover' = CASE ty = "mouseenter" -> "in"
                        [] ty = "mouseleave" -> "out"
                        [] OTHER -> envHover
       /\ quiet' = (quiet /\ ty \notin {"focusin", "mouseenter"})
       /\ updReq' = FALSE
       /\ UNCHANGED <<tMounted, tProps, tView, tDeps, listeners, aria>>
       /\ UNCHANGED <<popperInst, dVars, bVars>>

\* An event reaches the component only through a listener it has attached;
\* a scheduled re-render runs before the next event is delivered.
Listening(ty) == tMounted /\ ~tDirty /\ \E e \in Elems : ty \in listeners[e]

FocusIn ==
    /\ Listening("focusin")
    /\ Deliver("focusin")

FocusOut ==
    /\ Listening("focusout")
    /\ Deliver("focusout")

MouseEnter ==
    /\ Listening("mouseenter")
    /\ Deliver("mouseenter")

MouseLeave ==
    /\ Listening("mouseleave")
    /\ Deliver("mouseleave")

\* The parent unmounts the Tooltip: the listener effect's destructor runs,
\* the portal is removed, the hook state is dropped.
TooltipUnmount ==
    /\ tMounted
    /\ tMounted' = FALSE
    /\ listeners' = [e \in Elems |->
                        IF e = Cast(tDeps.target) THEN {} ELSE listeners[e]]
    /\ tView' = NoView
    /\ tProps' = TooltipDefault
    /\ focused' = FALSE
    /\ hovered' = FALSE
    /\ tDirty' = FALSE
    /\ tDeps' = NoDeps
    /\ envFocus' = "never"
    /\ envHover' = "never"
    /\ quiet' = FALSE
    /\ updReq' = FALSE
    /\ UNCHANGED <<aria, popperInst, dVars, bVars>>

TooltipInit ==
    /\ tMounted = FALSE
    /\ tProps = TooltipDefault
    /\ focused = FALSE
    /\ hovered = FALSE
    /\ tDirty = FALSE
    /\ tView = NoView
    /\ tDeps = NoDeps
    /\ listeners = [e \in Elems |-> {}]
    /\ aria \in [Elems -> Ids \cup {NoId}]
    /\ envFocus = "never"
    /\ envHover = "never"
    /\ quiet = FALSE
    /\ popperInst = "i0"
    /\ updReq = FALSE

TooltipNext ==
    \/ TooltipMount
    \/ TooltipParentRender
    \/ TooltipRerender
    \/ TooltipPopperChange
    \/ FocusIn
    \/ FocusOut
    \/ MouseEnter
    \/ MouseLeave
    \/ TooltipUnmount

(***************************************************************************)
(* Tooltip: claims                                                         *)
(***************************************************************************)
\* The tooltip element of the last render is visible.
Visible == "show" \in tView.class /\ tView.dataShow

\* The tooltip element of the last render is hidden.
Hidden == "show" \notin tView.class /\ ~tView.dataShow

\* No re-render is scheduled: the view is that of the current state.
Settled == tMounted /\ ~tDirty

\* C1: a render with disabled = true leaves the tooltip hidden (no `show`
\* class, no data-show), whatever show, the trigger flags, the focused and
\* hovered state and the events delivered so far.
C1_DisabledHides == tMounted /\ tProps.disabled => Hidden

\* C1 witness: disabled with show = true, both triggers on and both enter
\* events delivered, and the tooltip is hidden.
C1_Witness ==
    /\ Settled /\ tProps.disabled /\ tProps.show
    /\ tProps.trigger_on_focus /\ tProps.trigger_on_hover
    /\ envFocus = "in" /\ envHover = "in"
    /\ Hidden

\* C2: a render with show = true and disabled = false leaves the tooltip
\* visible, whatever the focus and hover state and the trigger flags.
C2_ShowPropShows == tMounted /\ tProps.show /\ ~tProps.disabled => Visible

\* C2 witness: show = true, both trigger flags off, focus and hover both
\* left, and the tooltip is visible.
C2_Witness ==
    /\ Settled /\ tProps.show /\ ~tProps.disabled
    /\ ~tProps.trigger_on_focus /\ ~tProps.trigger_on_hover
    /\ envFocus = "out" /\ envHover = "out"
    /\ Visible

\* C3: with disabled = false and show = false, once the scheduled re-render
\* has run the tooltip is visible only if some trigger whose flag is true had
\* its enter event delivered last (focusin for trigger_on_focus, mouseenter
\* for trigger_on_hover); a trigger whose flag is false never shows it, and
\* with both flags false it is never visible.
C3_TriggerNeedsFlag ==
    Settled /\ ~tProps.disabled /\ ~tProps.show /\ Visible
        => \/ (tProps.trigger_on_focus /\ envFocus = "in")
           \/ (tProps.trigger_on_hover /\ envHover = "in")

\* C3 witness: focusin was delivered with trigger_on_focus = false (hover
\* not entered) and the tooltip stayed hidden.
C3_Witness ==
    /\ Settled /\ ~tProps.disabled /\ ~tProps.show
    /\ ~tProps.trigger_on_focus /\ tProps.trigger_on_hover
    /\ envFocus = "in" /\ envHover # "in" /\ focused
    /\ Hidden

\* C4, state part: with both trigger flags true, show = false and
\* disabled = false, the settled tooltip is visible exactly while focused or
\* hovered is set.
C4_VisibleWhileActive ==
    Settled /\ tProps.trigger_on_focus /\ tProps.trigger_on_hover
            /\ ~tProps.show /\ ~tProps.disabled
        => (Visible <=> (focused \/ hovered))

\* C4, step part: hover events never change focused, focus events never
\* change hovered.
C4_Independent ==
    /\ (MouseEnter \/ MouseLeave) => focused' = focused
    /\ (FocusIn \/ FocusOut) => hovered' = hovered

\* C4: with both trigger flags true, show = false and disabled = false the
\* tooltip is visible as long as focus or hover is still active, the leave
\* event of one trigger does not hide it, it is hidden once both have ended;
\* focus and hover are tracked independently.
C4_OverlappingTriggers == [](C4_VisibleWhileActive) /\ [][C4_Independent]_vars

\* C4 witness: mouseleave was delivered while still focused and the tooltip
\* is still visible.
C4_Witness ==
    /\ Settled /\ tProps.trigger_on_focus /\ tProps.trigger_on_hover
    /\ ~tProps.show /\ ~tProps.disabled
    /\ envHover = "out" /\ envFocus = "in" /\ focused /\ ~hovered
    /\ Visible

\* C5: after a render with disabled = true and until the next focusin or
\* mouseenter, focused and hovered are both false, so a later render with
\* disabled = false and show = false leaves the tooltip hidden although no
\* focusout or mouseleave was delivered.
C5_DisabledResets ==
    tMounted /\ quiet
        => /\ ~focused
           /\ ~hovered
           /\ (~tProps.disabled /\ ~tProps.show => Hidden)

\* C5 witness: focus and hover were entered and never left, the tooltip was
\* rendered disabled, is enabled again with both triggers on, and is hidden.
C5_Witness ==
    /\ Settled /\ quiet /\ ~tProps.disabled /\ ~tProps.show
    /\ tProps.trigger_on_focus /\ tProps.trigger_on_hover
    /\ envFocus = "in" /\ envHover = "in"
    /\ Hidden

\* C6: after the effects of a render, the element the target resolves to
\* carries aria-describedby = id exactly if id is set and the tooltip is
\* visible in that render; otherwise it carries no aria-describedby.
C6_AriaDescribedBy ==
    tMounted /\ Cast(tProps.target) # NoElem
        => aria[Cast(tProps.target)] =
              (IF tProps.id # NoId /\ Visible THEN tProps.id ELSE NoId)

\* C6 witness: the first render (show = false, no trigger active) removed the
\* attribute, a trigger then made the tooltip visible and the effect set it
\* to the id; the other element keeps a value it had before.
C6_Witness ==
    /\ Settled /\ tProps.target = "r1" /\ tProps.id = "tipA"
    /\ ~tProps.show /\ Visible
    /\ aria["e1"] = "tipA" /\ aria["e2"] = "tipB"

\* C7: every render of a mounted Tooltip emits the tooltip element
\* (role="tooltip") into the document, whatever show, disabled, focused and
\* hovered are; hiding or disabling removes only the `show` class and
\* data-show.
C7_AlwaysInDom ==
    tMounted => /\ tView.present
                /\ tView.role = "tooltip"
                /\ {"tooltip", "bs-tooltip-auto"} \subseteq tView.class

\* C7 witness: a disabled, hidden tooltip is part of the document.
C7_Witness ==
    /\ tMounted /\ tProps.disabled /\ tProps.show /\ Hidden
    /\ tView.present


\* C13: a step requests the asynchronous popper.update() when, and only
\* when, it is a render after which the tooltip is visible and either it was
\* not visible before or the popper instance changed; a render that leaves
\* the tooltip hidden, and a render that keeps it visible with the same
\* instance, request none.
C13_UpdateRequests ==
    [][updReq' = (Visible' /\ (~Visible \/ popperInst' # popperInst))]_vars

\* C13 witness: a trigger (not the show prop) made the tooltip visible and
\* the render that showed it requested the update.
C13_Witness ==
    /\ tMounted /\ ~tProps.show /\ Visible /\ updReq
    /\ popperInst = "i1"

\* C18: while the Tooltip is mounted, the element its `target` resolves to
\* carries all four listeners (focusin, focusout, mouseenter, mouseleave),
\* disabled or not, and no other element carries any: a change of `target`
\* removed them from the previous element; after unmount no element carries
\* any.
C18_ListenerLifecycle ==
    /\ tMounted => \A e \in Elems :
                      listeners[e] = IF e = Cast(tProps.target)
                                     THEN EventTypes ELSE {}
    /\ ~tMounted => \A e \in Elems : listeners[e] = {}
    /\ Cardinality({e \in Elems : listeners[e] # {}}) <= 1

\* C18 witness: a disabled Tooltip whose target is the second element, after
\* events were delivered: the four listeners are on that element alone.
C18_Witness ==
    /\ tMounted /\ tProps.disabled /\ tProps.target = "r2"
    /\ envFocus = "in" /\ envHover = "out"
    /\ listeners["e2"] = EventTypes /\ listeners["e1"] = {}

(***************************************************************************)
(* DropdownMenu: values                                                    *)
(***************************************************************************)
\* DropdownMenuProps.  cb: on_close_requested is Some.  `target`,
\* `placement` and `children` only reach the positioning engine.
DropdownProps == [show : BOOLEAN, cb : BOOLEAN]

DropdownDefault == [show |-> FALSE, cb |-> FALSE]

\* A node of the document, as far as the handlers tell nodes apart.
Loc(kind, idx) == [kind |-> kind, idx |-> idx]

Menu == Loc("menu", 0)

\* Nothing has focus (a focusout then has no relatedTarget).
Nowhere == Loc("nothing", 0)

\* The focusable items of the menu, in document order:
\* :scope .dropdown-item:not(.disabled):not(:disabled)
Items(n) == {Loc("item", i) : i \in 1..n}

\* Nodes inside the menu: the <ul> itself, its focusable items, an <input>,
\* a <textarea>, another HtmlElement that is no focusable item, and a node
\* that is not an HtmlElement.
InsideNodes(n) ==
    {Menu} \cup Items(n)
        \cup {Loc(k, 0) : k \in {"input", "textarea", "other", "foreign"}}

\* Every node focus can be on; "outside" is an element outside the menu.
Nodes(n) == InsideNodes(n) \cup {Loc("outside", 0), Nowhere}

\* target != dropdown_elem && !dropdown_elem.contains(Some(&target)), negated
Inside(loc) == loc.kind \in {"menu", "item", "input", "textarea", "other",
                             "foreign"}

\* dyn_into::<HtmlElement>() succeeds
IsHtmlElement(loc) == loc.kind \in {"menu", "item", "input", "textarea",
                                    "other", "outside"}

Keys == {"Escape", "ESCAPE", "ArrowUp", "ArrowDown", "Enter"}

\* ASCII lower-casing of a key name.
AsciiLower(k) == CASE k \in {"Escape", "ESCAPE"} -> "escape"
                   [] k = "ArrowUp" -> "arrowup"
                   [] k = "ArrowDown" -> "arrowdown"
                   [] OTHER -> "enter"

\* str::eq_ignore_ascii_case
EqIgnoreAsciiCase(a, b) == AsciiLower(a) = AsciiLower(b)

NoEvt == [type |-> "none", key |-> "none", target |-> Nowhere,
          prevented |-> FALSE, emitted |-> <<>>, moved |-> FALSE]

NoDView == [present |-> FALSE, class |-> {}, dataShow |-> FALSE]

NoDDeps == [ran |-> FALSE, shown |-> FALSE, show |-> FALSE]

(***************************************************************************)
(* DropdownMenu: the component function                                    *)
(***************************************************************************)
\* Mutant of DropdownView: the class follows the internal `shown` state.
DropdownViewByState(p, sh) ==
    [present |-> TRUE,
     class |-> {"dropdown-menu"} \cup (IF sh THEN {"show"} ELSE {}),
     dataShow |-> sh]

\* class, data_show and the <ul> of html!
DropdownView(p, sh) ==
    [present |-> TRUE,
     class |-> {"dropdown-menu"} \cup (IF p.show THEN {"show"} ELSE {}),
     dataShow |-> p.show]

\* Mutant of OnCloseRequest: the request is emitted without a callback.
OnCloseRequestAlways(p, req) == <<req>>

\* on_close_request: what reaches on_close_requested.
OnCloseRequest(p, req) == IF p.cb THEN <<req>> ELSE <<>>

\* Mutant of OnFocusOut: every focusout counts as a loss of focus.
OnFocusOutAnywhere(p, related) == OnCloseRequest(p, "FocusLoss")

\* onfocusout, for a focusout whose relatedTarget is `related`.
OnFocusOut(p, related) ==
    IF related # Nowhere
    THEN IF ~Inside(related) THEN OnCloseRequest(p, "FocusLoss") ELSE <<>>
    ELSE OnCloseRequest(p, "FocusLoss")

\* Position of the event target among the n focusables (0-based), 0 if it
\* is none of them.
CurrentPos(target, n) ==
    IF target \in Items(n) THEN target.idx - 1 ELSE 0

\* Mutant of NextPos: the traversal stops at the first and the last item.
NextPosNoWrap(is_arrow_up, current_pos, n) ==
    IF is_arrow_up
    THEN IF current_pos = 0 THEN 0 ELSE current_pos - 1
    ELSE IF current_pos >= n - 1 THEN n - 1 ELSE current_pos + 1

\* The index (0-based) of the focusable an arrow key moves to.
NextPos(is_arrow_up, current_pos, n) ==
    IF is_arrow_up
    THEN IF current_pos = 0 THEN n - 1 ELSE current_pos - 1
    ELSE IF current_pos >= n - 1 THEN 0 ELSE current_pos + 1

\* Mutant of OnKeyDown: Escape typed into an <input> or <textarea> is left
\* to the field.
OnKeyDownEscapeNotInFields(p, sh, key, target, n) ==
    LET is_escape == EqIgnoreAsciiCase(key, "Escape")
        is_arrow_up == EqIgnoreAsciiCase(key, "ArrowUp")
        is_arrow_down == EqIgnoreAsciiCase(key, "ArrowDown")
        nothing == [prevented |-> FALSE, emitted |-> <<>>, focus |-> target,
                    panicked |-> FALSE]
    IN IF ~sh THEN nothing
       ELSE IF ~IsHtmlElement(target) THEN nothing
       ELSE IF target.kind \in {"input", "textarea"} THEN nothing
       ELSE IF ~(is_escape \/ is_arrow_down \/ is_arrow_up) THEN nothing
       ELSE IF is_escape
       THEN [nothing EXCEPT !.prevented = TRUE,
                            !.emitted = OnCloseRequest(p, "EscapeKey")]
       ELSE IF n = 0
       THEN [nothing EXCEPT !.prevented = TRUE, !.panicked = TRUE]
       ELSE [nothing EXCEPT
                !.prevented = TRUE,
                !.focus = Loc("item",
                              NextPos(is_arrow_up, CurrentPos(target, n), n) + 1)]

\* Mutant of OnKeyDown: the handler does not look at `shown`.
OnKeyDownWhileHidden(p, sh, key, target, n) ==
    LET is_escape == EqIgnoreAsciiCase(key, "Escape")
        is_arrow_up == EqIgnoreAsciiCase(key, "ArrowUp")
        is_arrow_down == EqIgnoreAsciiCase(key, "ArrowDown")
        nothing == [prevented |-> FALSE, emitted |-> <<>>, focus |-> target,
                    panicked |-> FALSE]
    IN IF ~IsHtmlElement(target) THEN nothing
       ELSE IF target.kind \in {"input", "textarea"} /\ ~is_escape
       THEN nothing
       ELSE IF target.kind \notin {"input", "textarea"}
               /\ ~(is_escape \/ is_arrow_down \/ is_arrow_up)
       THEN nothing
       ELSE IF is_escape
       THEN [nothing EXCEPT !.prevented = TRUE,
                            !.emitted = OnCloseRequest(p, "EscapeKey")]
       ELSE IF n = 0
       THEN [nothing EXCEPT !.prevented = TRUE, !.panicked = TRUE]
       ELSE [nothing EXCEPT
                !.prevented = TRUE,
                !.focus = Loc("item",
                              NextPos(is_arrow_up, CurrentPos(target, n), n) + 1)]

\* onkeydown, for a keydown of `key` whose target is `target`, in a menu with
\* n focusables: whether default was prevented, what was emitted, where the
\* focus is afterwards, and whether the handler panicked.
OnKeyDown(p, sh, key, target, n) ==
    LET is_escape == EqIgnoreAsciiCase(key, "Escape")
        is_arrow_up == EqIgnoreAsciiCase(key, "ArrowUp")
        is_arrow_down == EqIgnoreAsciiCase(key, "ArrowDown")
        nothing == [prevented |-> FALSE, emitted |-> <<>>, focus |-> target,
                    panicked |-> FALSE]
    IN IF ~sh THEN nothing
       ELSE IF ~IsHtmlElement(target) THEN nothing
       ELSE IF target.kind \in {"input", "textarea"} /\ ~is_escape
       THEN nothing
       ELSE IF target.kind \notin {"input", "textarea"}
               /\ ~(is_escape \/ is_arrow_down \/ is_arrow_up)
       THEN nothing
       ELSE IF is_escape
       THEN [nothing EXCEPT !.prevented = TRUE,
                            !.emitted = OnCloseRequest(p, "EscapeKey")]
       ELSE IF n = 0
       THEN [nothing EXCEPT !.prevented = TRUE, !.panicked = TRUE]
       ELSE [nothing EXCEPT
                !.prevented = TRUE,
                !.focus = Loc("item",
                              NextPos(is_arrow_up, CurrentPos(target, n), n) + 1)]

\* Mutant of FocusEffectRuns: the effect does not return early when `shown`
\* is false.
FocusEffectRunsHidden(deps, sh) == ~(deps.ran /\ deps.shown = sh)

\* use_effect_with((shown.clone(), dropdown_ref.clone()), ..): TRUE iff the
\* effect runs and calls dropdown_elem.focus().
FocusEffectRuns(deps, sh) ==
    /\ ~(deps.ran /\ deps.shown = sh)
    /\ sh

\* Where the focus is after that effect.
FocusEffect(deps, sh, focus) ==
    IF FocusEffectRuns(deps, sh) THEN Menu ELSE focus

\* use_effect_with((props.show, popper.instance.clone()), ..) ran.
UpdateEffectRuns(deps, p) == ~deps.ran \/ deps.show # p.show

\* One run of the component function on props p, followed by its effects.
\* The focus the first effect moves stays inside the menu or comes from
\* outside it, so the focusout it causes requests no close.
DropdownRender(p) ==
    LET runs == UpdateEffectRuns(dDeps, p)
        sh == IF runs /\ ~p.show THEN FALSE ELSE shown
    IN /\ runs /\ p.show => pending < MaxPending
       /\ dProps' = p
       /\ dView' = DropdownView(p, shown)
       /\ dFocus' = FocusEffect(dDeps, shown, dFocus)
       /\ pending' = IF runs /\ p.show THEN pending + 1 ELSE pending
       /\ shown' = sh
       /\ dDirty' = (sh # shown)
       /\ dDeps' = [ran |-> TRUE, shown |-> shown, show |-> p.show]
       /\ lastEvt' = IF FocusEffectRuns(dDeps, shown)
                     THEN [NoEvt EXCEPT !.type = "focus", !.target = dFocus,
                                        !.moved = (dFocus # Menu)]
                     ELSE NoEvt
       /\ UNCHANGED <<nItems, dPanicked>>

(***************************************************************************)
(* DropdownMenu: actions                                                   *)
(***************************************************************************)
DropdownMount ==
    /\ ~dMounted
    /\ ~dPanicked
    /\ dMounted' = TRUE
    /\ \E p \in DropdownProps : DropdownRender(p)
    /\ UNCHANGED <<tVars, bVars>>

DropdownParentRender ==
    /\ dMounted
    /\ ~dPanicked
    /\ \E p \in DropdownProps :
          /\ p # dProps
          /\ DropdownRender(p)
    /\ UNCHANGED <<dMounted, tVars, bVars>>

DropdownRerender ==
    /\ dMounted
    /\ ~dPanicked
    /\ dDirty
    /\ DropdownRender(dProps)
    /\ UNCHANGED <<dMounted, tVars, bVars>>

\* spawn_local(async move { popper.update().await; shown.set(true); }):
\* the awaited update completes.
UpdateComplete ==
    /\ dMounted
    /\ ~dPanicked
    /\ pending > 0
    /\ pending' = pending - 1
    /\ shown' = TRUE
    /\ dDirty' = (dDirty \/ ~shown)
    /\ lastEvt' = NoEvt
    /\ UNCHANGED <<dMounted, dProps, dView, dDeps, nItems, dFocus, dPanicked>>
    /\ UNCHANGED <<tVars, bVars>>

\* A keydown on the focused node bubbles to the <ul>.
KeyDown ==
    /\ dMounted
    /\ ~dPanicked
    /\ ~dDirty
    /\ Inside(dFocus)
    /\ \E key \in Keys :
          LET r == OnKeyDown(dProps, shown, key, dFocus, nItems)
          IN /\ dFocus' = r.focus
             /\ dPanicked' = r.panicked
             /\ lastEvt' = [type |-> "keydown", key |-> key,
                            target |-> dFocus, prevented |-> r.prevented,
                            emitted |-> r.emitted \o
                                (IF r.focus # dFocus
                                 THEN OnFocusOut(dProps, r.focus) ELSE <<>>),
                            moved |-> (r.focus # dFocus)]
    /\ UNCHANGED <<dMounted, dProps, shown, dDirty, dView, dDeps, pending,
                   nItems>>
    /\ UNCHANGED <<tVars, bVars>>

\* The user moves the focus to another node (or nowhere).  When it leaves a
\* node inside the menu the focusout bubbles to the <ul>.
MoveFocus ==
    /\ dMounted
    /\ ~dPanicked
    /\ ~dDirty
    /\ \E to \in Nodes(nItems) :
          /\ to # dFocus
          /\ dFocus' = to
          /\ lastEvt' = IF Inside(dFocus)
                        THEN [NoEvt EXCEPT !.type = "focusout",
                                           !.target = dFocus,
                                           !.emitted = OnFocusOut(dProps, to),
                                           !.moved = TRUE]
                        ELSE NoEvt
    /\ UNCHANGED <<dMounted, dProps, shown, dDirty, dView, dDeps, pending,
                   nItems, dPanicked>>
    /\ UNCHANGED <<tVars, bVars>>

\* The parent unmounts the menu; a focus inside it is lost.
DropdownUnmount ==
    /\ dMounted
    /\ ~dPanicked
    /\ dMounted' = FALSE
    /\ dProps' = DropdownDefault
    /\ shown' = FALSE
    /\ dDirty' = FALSE
    /\ dView' = NoDView
    /\ dDeps' = NoDDeps
    /\ pending' = 0
    /\ dFocus' = IF Inside(dFocus) THEN Nowhere ELSE dFocus
    /\ lastEvt' = NoEvt
    /\ UNCHANGED <<nItems, dPanicked, tVars, bVars>>

DropdownInit ==
    /\ dMounted = FALSE
    /\ dProps = DropdownDefault
    /\ shown = FALSE
    /\ dDirty = FALSE
    /\ dView = NoDView
    /\ dDeps = NoDDeps
    /\ pending = 0
    /\ nItems \in 0..NumItems
    /\ dFocus = Loc("outside", 0)
    /\ lastEvt = NoEvt
    /\ dPanicked = FALSE

DropdownNext ==
    \/ DropdownMount
    \/ DropdownParentRender
    \/ DropdownRerender
    \/ UpdateComplete
    \/ KeyDown
    \/ MoveFocus
    \/ DropdownUnmount

(***************************************************************************)
(* DropdownMenu: claims                                                    *)
(***************************************************************************)
\* C8, state part: the menu carries the `show` class and data-show exactly
\* when the `show` prop is true, and without on_close_requested no handler
\* emits anything.
C8_ShowFollowsProp ==
    dMounted => /\ ("show" \in dView.class) = dProps.show
                /\ dView.dataShow = dProps.show
                /\ (~dProps.cb => lastEvt.emitted = <<>>)

\* C8, step part: no keyboard or focus event changes the rendered menu.
C8_EventsKeepView == (KeyDown \/ MoveFocus) => dView' = dView

\* C8: the menu never dismisses itself: `show` class and data-show follow the
\* `show` prop alone, no keyboard or focus event changes them, and without
\* on_close_requested Escape and focus loss emit nothing.
C8_NeverSelfDismisses == [](C8_ShowFollowsProp) /\ [][C8_EventsKeepView]_vars

\* C8 witness: Escape was handled on a shown menu without callback: default
\* prevented, nothing emitted, the menu still rendered with `show`.
C8_Witness ==
    /\ dMounted /\ dProps.show /\ ~dProps.cb /\ shown
    /\ lastEvt.type = "keydown" /\ lastEvt.key = "Escape"
    /\ lastEvt.prevented /\ lastEvt.emitted = <<>>
    /\ "show" \in dView.class /\ dView.dataShow

C14_Step ==
    /\ (dMounted' /\ ~dProps.show /\ dProps'.show) => shown' = shown
    /\ (shown' /\ ~shown) => (pending > 0 /\ pending' = pending - 1)
    /\ lastEvt'.type = "focus" => (shown /\ dFocus' = Menu)
    /\ (dMounted' /\ dProps.show /\ ~dProps'.show) => ~shown'

\* C14: after `show` changes to true, `shown` is set true only once the
\* asynchronous update() has completed and the menu element is focused only
\* after `shown` became true; when `show` changes to false, `shown` is set
\* false by that render's effect, without waiting.
C14_ShowThenShownThenFocus == [][C14_Step]_vars

\* C14 witness: `show` is true, the update completed, `shown` is true and the
\* re-render's effect has just moved the focus onto the menu.
C14_Witness ==
    /\ dMounted /\ dProps.show /\ shown /\ pending = 0
    /\ lastEvt.type = "focus" /\ lastEvt.moved /\ dFocus = Menu

\* C15: a keydown, whatever the key, handled while `shown` is false has no
\* effect: the default is not prevented, no close request is emitted and the
\* focus is not moved (nor does the handler panic).
C15_KeyDownWhileHidden ==
    (dMounted /\ lastEvt.type = "keydown" /\ ~shown)
        => /\ ~lastEvt.prevented
           /\ lastEvt.emitted = <<>>
           /\ ~lastEvt.moved
           /\ dFocus = lastEvt.target
           /\ ~dPanicked

\* C15 witness: ArrowDown reached a menu with a callback and without
\* focusable items while `show` was true but `shown` still false: nothing
\* happened.
C15_Witness ==
    /\ dMounted /\ dProps.show /\ dProps.cb /\ ~shown /\ nItems = 0
    /\ lastEvt.type = "keydown" /\ lastEvt.key = "ArrowDown"
    /\ lastEvt.target = Menu
    /\ ~lastEvt.prevented /\ lastEvt.emitted = <<>> /\ dFocus = Menu

\* The last step handled `key` on focusable item number lastEvt.target.idx
\* of a shown menu.
ArrowOnItem(key) ==
    /\ dMounted /\ shown
    /\ lastEvt.type = "keydown" /\ lastEvt.key = key
    /\ lastEvt.target \in Items(nItems)

\* C16, state part: ArrowDown on item i focuses item i+1, the first one
\* after the last; ArrowUp focuses item i-1, the last one before the first.
C16_Moves ==
    /\ ArrowOnItem("ArrowDown")
          => /\ lastEvt.prevented
             /\ dFocus = Loc("item", IF lastEvt.target.idx = nItems THEN 1
                                     ELSE lastEvt.target.idx + 1)
    /\ ArrowOnItem("ArrowUp")
          => /\ lastEvt.prevented
             /\ dFocus = Loc("item", IF lastEvt.target.idx = 1 THEN nItems
                                     ELSE lastEvt.target.idx - 1)

\* C16, step part: ArrowUp pressed right after ArrowDown on item i brings the
\* focus back to item i.
C16_RoundTrip ==
    (/\ ArrowOnItem("ArrowDown")
     /\ shown'
     /\ lastEvt'.type = "keydown" /\ lastEvt'.key = "ArrowUp"
     /\ lastEvt'.target = dFocus)
        => dFocus' = lastEvt.target

\* C16: while the menu is shown and has n >= 1 focusable items, ArrowDown on
\* item i focuses item i+1 (wrapping from the last to the first), ArrowUp
\* focuses item i-1 (wrapping from the first to the last), and ArrowDown
\* followed by ArrowUp returns to item i.
C16_ArrowTraversal == [](C16_Moves) /\ [][C16_RoundTrip]_vars

\* C16 witness: ArrowDown on the last of three items wrapped to the first.
C16_Witness ==
    /\ ArrowOnItem("ArrowDown") /\ nItems = 3
    /\ lastEvt.target = Loc("item", 3) /\ dFocus = Loc("item", 1)

\* C17: on a shown menu, a focus move made by the key handler, from the menu
\* container or from an item, lands on an item of the menu: the focusout it
\* causes has its relatedTarget inside the menu and emits no FocusLoss (the
\* handler emits nothing at all).
C17_TraversalKeepsMenuOpen ==
    (/\ dMounted /\ shown
     /\ lastEvt.type = "keydown" /\ lastEvt.moved
     /\ lastEvt.target \in {Menu} \cup Items(nItems))
        => /\ lastEvt.key \in {"ArrowUp", "ArrowDown"}
           /\ dFocus \in Items(nItems)
           /\ Inside(dFocus)
           /\ lastEvt.emitted = <<>>

\* C17 witness: with a callback registered, ArrowUp on the menu container
\* moved the focus to the last item and nothing was emitted.
C17_Witness ==
    /\ dMounted /\ shown /\ dProps.cb /\ nItems = 3
    /\ lastEvt.type = "keydown" /\ lastEvt.key = "ArrowUp"
    /\ lastEvt.target = Menu /\ lastEvt.moved
    /\ dFocus = Loc("item", 3) /\ lastEvt.emitted = <<>>

(***************************************************************************)
(* Button: values                                                          *)
(***************************************************************************)
\* An attribute that is not emitted.
Absent == "(absent)"

\* Option::None of `url`, `target` and `modal_target`.
NoneStr == "(none)"

ButtonSizes == {"Large", "Normal", "Small"}

\* ButtonProps.  `class`, `name`, `text`, `children`, `onclick`, `node_ref`
\* are handed through unchanged; `style` is one colour.
ButtonProps == [disabled : BOOLEAN,
                url : {NoneStr, "https://example.org/"},
                target : {NoneStr, "_blank"},
                modal_target : {NoneStr, "ExampleModal"},
                modal_dismiss : BOOLEAN,
                dropdown : BOOLEAN,
                outline : BOOLEAN,
                size : ButtonSizes,
                block : BOOLEAN,
                style : {"primary"}]

ButtonDefault == [disabled |-> FALSE, url |-> NoneStr, target |-> NoneStr,
                  modal_target |-> NoneStr, modal_dismiss |-> FALSE,
                  dropdown |-> FALSE, outline |-> FALSE, size |-> "Normal",
                  block |-> FALSE, style |-> "primary"]

NoBView == [present |-> FALSE, tag |-> "none", class |-> {},
            disabled |-> FALSE, href |-> Absent, target |-> Absent,
            toggle |-> Absent, bsTarget |-> Absent, dismiss |-> Absent,
            expanded |-> Absent]

(***************************************************************************)
(* Button: view                                                            *)
(***************************************************************************)
\* The classes view() collects before it picks the element.
ButtonClasses(p) ==
    {"btn"}
        \cup {IF p.outline THEN "btn-outline-" \o p.style
              ELSE "btn-" \o p.style}
        \cup (CASE p.size = "Large" -> {"btn-lg"}
                [] p.size = "Small" -> {"btn-sm"}
                [] OTHER -> {})
        \cup (IF p.block THEN {"btn-block"} ELSE {})

\* let modal_dismiss = match props.modal_dismiss { .. }
ModalDismiss(p) == IF p.modal_dismiss THEN "modal" ELSE ""

\* An Option<AttrValue> attribute: None emits no attribute.
OptAttr(v) == IF v = NoneStr THEN Absent ELSE v

\* Mutant of ButtonView: `url` makes an <a> of a disabled button too.
ButtonViewLinkWhenDisabled(p) ==
    LET base == [NoBView EXCEPT !.present = TRUE, !.tag = "button",
                                !.class = ButtonClasses(p),
                                !.disabled = p.disabled]
    IN IF p.modal_target # NoneStr
       THEN [base EXCEPT !.toggle = "modal",
                         !.bsTarget = "#" \o p.modal_target]
       ELSE IF p.url # NoneStr
       THEN [base EXCEPT !.tag = "a",
                         !.dismiss = ModalDismiss(p),
                         !.href = p.url,
                         !.target = OptAttr(p.target)]
       ELSE IF p.dropdown
       THEN [base EXCEPT !.class = ButtonClasses(p) \cup {"dropdown-toggle"},
                         !.expanded = "false",
                         !.toggle = "dropdown",
                         !.dismiss = ModalDismiss(p)]
       ELSE [base EXCEPT !.dismiss = ModalDismiss(p)]

\* Mutant of ButtonView: `url` is looked at before `modal_target`.
ButtonViewUrlFirst(p) ==
    LET base == [NoBView EXCEPT !.present = TRUE, !.tag = "button",
                                !.class = ButtonClasses(p),
                                !.disabled = p.disabled]
    IN IF p.url # NoneStr /\ ~p.disabled
       THEN [base EXCEPT !.tag = "a",
                         !.dismiss = ModalDismiss(p),
                         !.href = p.url,
                         !.target = OptAttr(p.target)]
       ELSE IF p.modal_target # NoneStr
       THEN [base EXCEPT !.toggle = "modal",
                         !.bsTarget = "#" \o p.modal_target]
       ELSE IF p.dropdown
       THEN [base EXCEPT !.class = ButtonClasses(p) \cup {"dropdown-toggle"},
                         !.expanded = "false",
                         !.toggle = "dropdown",
                         !.dismiss = ModalDismiss(p)]
       ELSE [base EXCEPT !.dismiss = ModalDismiss(p)]

\* Button::view
ButtonView(p) ==
    LET base == [NoBView EXCEPT !.present = TRUE, !.tag = "button",
                                !.class = ButtonClasses(p),
                                !.disabled = p.disabled]
    IN IF p.modal_target # NoneStr
       THEN [base EXCEPT !.toggle = "modal",
                         !.bsTarget = "#" \o p.modal_target]
       ELSE IF p.url # NoneStr /\ ~p.disabled
       THEN [base EXCEPT !.tag = "a",
                         !.dismiss = ModalDismiss(p),
                         !.href = p.url,
                         !.target = OptAttr(p.target)]
       ELSE IF p.dropdown
       THEN [base EXCEPT !.class = ButtonClasses(p) \cup {"dropdown-toggle"},
                         !.expanded = "false",
                         !.toggle = "dropdown",
                         !.dismiss = ModalDismiss(p)]
       ELSE [base EXCEPT !.dismiss = ModalDismiss(p)]

(***************************************************************************)
(* Button: actions                                                         *)
(***************************************************************************)
ButtonMount ==
    /\ ~bMounted
    /\ bMounted' = TRUE
    /\ \E p \in ButtonProps :
          /\ bProps' = p
          /\ bView' = ButtonView(p)
    /\ UNCHANGED <<tVars, dVars>>

\* The parent passes changed props: view() runs again.
ButtonParentRender ==
    /\ bMounted
    /\ \E p \in ButtonProps :
          /\ p # bProps
          /\ bProps' = p
          /\ bView' = ButtonView(p)
    /\ UNCHANGED <<bMounted, tVars, dVars>>

ButtonUnmount ==
    /\ bMounted
    /\ bMounted' = FALSE
    /\ bProps' = ButtonDefault
    /\ bView' = NoBView
    /\ UNCHANGED <<tVars, dVars>>

ButtonInit ==
    /\ bMounted = FALSE
    /\ bProps = ButtonDefault
    /\ bView = NoBView

ButtonNext ==
    \/ ButtonMount
    \/ ButtonParentRender
    \/ ButtonUnmount

(***************************************************************************)
(* Button: claims                                                          *)
(***************************************************************************)
\* C10: `url` is ignored when the button is disabled: a disabled Button is
\* never an <a> and never carries href; `target` is emitted only when `url`
\* is set and the button is not disabled.
C10_UrlIgnoredWhenDisabled ==
    bMounted => /\ (bProps.disabled =>
                        bView.tag # "a" /\ bView.href = Absent)
                /\ (bView.target # Absent =>
                        bProps.url # NoneStr /\ ~bProps.disabled)

\* C10 witness: a disabled Button with url and target set is a <button>
\* without href and target.
C10_Witness ==
    /\ bMounted /\ bProps.disabled
    /\ bProps.url # NoneStr /\ bProps.target # NoneStr
    /\ bProps.modal_target = NoneStr
    /\ bView.tag = "button" /\ bView.href = Absent /\ bView.target = Absent

\* C11: whenever modal_target is Some(t) the rendered element carries
\* data-bs-toggle="modal" and data-bs-target="#t", whatever url, disabled,
\* dropdown and modal_dismiss are.
C11_ModalTarget ==
    bMounted /\ bProps.modal_target # NoneStr
        => /\ bView.toggle = "modal"
           /\ bView.bsTarget = "#" \o bProps.modal_target

\* C11 witness: modal_target together with url (enabled), dropdown and
\* modal_dismiss: the element is a <button> that opens the modal.
C11_Witness ==
    /\ bMounted /\ bProps.modal_target = "ExampleModal"
    /\ bProps.url # NoneStr /\ ~bProps.disabled
    /\ bProps.dropdown /\ bProps.modal_dismiss
    /\ bView.tag = "button"
    /\ bView.toggle = "modal" /\ bView.bsTarget = "#ExampleModal"

\* C12: whenever modal_dismiss is true the rendered element carries
\* data-bs-dismiss="modal", for every combination of modal_target, url,
\* disabled and dropdown.
C12_ModalDismiss ==
    bMounted /\ bProps.modal_dismiss => bView.dismiss = "modal"

(***************************************************************************)
(* Specifications                                                          *)
(***************************************************************************)
\* The components a specification does not exercise stay unmounted.
TooltipIdle == TooltipInit /\ aria = [e \in Elems |-> NoId]

DropdownIdle == DropdownInit /\ nItems = 0

TooltipSpecInit == TooltipInit /\ DropdownIdle /\ ButtonInit

DropdownSpecInit == TooltipIdle /\ DropdownInit /\ ButtonInit

ButtonSpecInit == TooltipIdle /\ DropdownIdle /\ ButtonInit

TooltipSpec == TooltipSpecInit /\ [][TooltipNext]_vars

DropdownSpec == DropdownSpecInit /\ [][DropdownNext]_vars

ButtonSpec == ButtonSpecInit /\ [][ButtonNext]_vars

====
